---- MODULE Spec2Model ----
(***************************************************************************)
(* Model of the native value runtime of move-native (structs.rs): the     *)
(* field walkers walk_fields / walk_fields_mut and the structural          *)
(* equality cmp_eq, over a byte-addressed memory and runtime type          *)
(* descriptors; and of the debug-info builder DIBuilder of move-to-solana  *)
(* (dwarf.rs) with its registry of struct debug types.                     *)
(*                                                                         *)
(* Integer widths are scaled down: the native size type has PtrBits bits,  *)
(* the u64 fields of the descriptors one bit more, so that every           *)
(* conversion of the source that can fail can fail here.                   *)
(***************************************************************************)
EXTENDS Integers, Sequences, FiniteSets, TLC

VARIABLES
    w_info,     \* walk: the StructTypeInfo handed to the walkers
    w_base,     \* walk: the base pointer (struct_ref) handed to the walkers
    iters,      \* walk: the two iterators, "imm" (walk_fields) and "mut" (walk_fields_mut)
    type_ve,    \* cmp_eq: the MoveType of the two compared values
    s1,         \* cmp_eq: pointer to the first value
    s2,         \* cmp_eq: pointer to the second value
    val1,       \* cmp_eq: the value stored at s1 (what the caller wrote there)
    val2,       \* cmp_eq: the value stored at s2
    mem,        \* the value memory, one byte per address
    stack,      \* cmp_eq: the call stack of the running comparison
    ret,        \* cmp_eq: the value returned to the frame on top of the stack
    swapped,    \* cmp_eq: TRUE while the running call is cmp_eq(type, s2, s1)
    result,     \* cmp_eq: result of each top-level call, by argument order
    maxDepth,   \* cmp_eq: deepest call stack of the running call
    compared,   \* cmp_eq: positions of the field pairs the outermost call has matched, in order
    rv1,        \* match: first Value View handed to the match of cmp_eq
    rv2,        \* match: second Value View
    is_eq,      \* match: outcome of the match
    threads,    \* concurrent readers: the two running calls of cmp_eq, by argument order
    alone,      \* concurrent readers: what each invocation returns when run alone
    di,         \* dwarf: the DIBuilder, an Option<DIBuilderCore> (<<>> is None)
    llvm,       \* dwarf: what the LLVM calls of the DIBuilder have emitted
    di_ret,     \* dwarf: the last call on the DIBuilder and what it returned
    di_log      \* dwarf: the calls of add_type_struct so far, oldest first

vars == <<w_info, w_base, iters, type_ve, s1, s2, val1, val2, mem, stack, ret,
          swapped, result, maxDepth, compared, rv1, rv2, is_eq, threads, alone,
          di, llvm, di_ret, di_log>>

walkVars  == <<w_info, w_base, iters>>
cmpVars   == <<type_ve, s1, s2, val1, val2, mem, stack, ret, swapped, result, maxDepth,
               compared>>
matchVars == <<rv1, rv2, is_eq>>
concVars  == <<threads, alone>>
diVars    == <<di, llvm, di_ret, di_log>>

-----------------------------------------------------------------------------
(* Bounds *)

PtrBits == 9        \* width of usize / isize / a pointer
MaxVecLen == 2      \* longest vector stored in memory
MaxRegistrations == 3   \* most calls of add_type_struct on one DIBuilder

-----------------------------------------------------------------------------
(* Integer types *)

RECURSIVE Pow2(_)
Pow2(n) == IF n = 0 THEN 1 ELSE 2 * Pow2(n - 1)

UsizeMax == Pow2(PtrBits) - 1
IsizeMax == Pow2(PtrBits - 1) - 1
U64Max   == Pow2(PtrBits + 1) - 1

\* outcome of a failed .expect("overflow")
Panic == [panic |-> "overflow"]
Ok(v) == [ok |-> v]
IsOk(r) == DOMAIN r = {"ok"}

\* usize::try_from(u64)
usize_try_from(n) == IF n <= UsizeMax THEN Ok(n) ELSE Panic

\* isize::try_from(u64)
isize_try_from(n) == IF n <= IsizeMax THEN Ok(n) ELSE Panic

\* <*const AnyValue>::offset(count): defined only while the sum stays in the
\* address space; outside it the behaviour is undefined, and a build either
\* wraps the address or stops at the precondition check.
ptr_offset(p, count) ==
    IF p + count <= UsizeMax
    THEN {Ok(p + count)}
    ELSE {Ok((p + count) % (UsizeMax + 1)), [panic |-> "ptr::offset"]}

-----------------------------------------------------------------------------
(* Type descriptors (rt_types) *)

Scalars == {"Bool", "U8", "U16", "U32", "U64", "U128", "U256", "Address", "Signer"}

Scalar(d) == [type_desc |-> d, type_info |-> [nothing |-> 0]]
VectorOf(t) == [type_desc |-> "Vector", type_info |-> [element_type |-> t]]
ReferenceTo(t) == [type_desc |-> "Reference", type_info |-> [element_type |-> t]]

StructFieldInfo(t, off, nm) == [type_ |-> t, offset |-> off, name |-> nm]

\* field_array stands for the array field_array_ptr points to
StructTypeInfo(fs, len, sz, al) ==
    [field_array |-> fs, field_array_len |-> len, size |-> sz, alignment |-> al]

StructOf(fs, sz, al) ==
    [type_desc |-> "Struct", type_info |-> StructTypeInfo(fs, Len(fs), sz, al)]

-----------------------------------------------------------------------------
(* walk_fields *)

\* walk_fields with a slice one field short
walk_fields_short(info, struct_ref) ==
    LET field_len == usize_try_from(info.field_array_len) IN
    IF IsOk(field_len)
    THEN Ok([fields |-> SubSeq(info.field_array, 1, field_len.ok - 1),
             struct_ref |-> struct_ref, pos |-> 0])
    ELSE Panic

\* lines 13-14: the slice of field infos, or the panic of expect("overflow")
walk_fields(info, struct_ref) ==
    LET field_len == usize_try_from(info.field_array_len) IN
    IF IsOk(field_len)
    THEN Ok([fields |-> SubSeq(info.field_array, 1, field_len.ok),
             struct_ref |-> struct_ref, pos |-> 0])
    ELSE Panic

\* walk_fields' closure with the offset left out of the field pointer
walk_fields_item_no_offset(field, struct_ref) ==
    LET struct_base_ptr == struct_ref
        field_offset == isize_try_from(field.offset)
    IN  IF IsOk(field_offset)
        THEN { IF IsOk(field_ptr)
               THEN Ok(<<field.type_, field_ptr.ok, field.name>>)
               ELSE field_ptr
               : field_ptr \in ptr_offset(struct_base_ptr, 0) }
        ELSE {Panic}

\* lines 16-22: the closure of the map, applied to one field
walk_fields_item(field, struct_ref) ==
    LET struct_base_ptr == struct_ref
        field_offset == isize_try_from(field.offset)
    IN  IF IsOk(field_offset)
        THEN { IF IsOk(field_ptr)
               THEN Ok(<<field.type_, field_ptr.ok, field.name>>)
               ELSE field_ptr
               : field_ptr \in ptr_offset(struct_base_ptr, field_offset.ok) }
        ELSE {Panic}

\* lines 25-30
walk_fields_mut(info, struct_ref) ==
    LET field_len == usize_try_from(info.field_array_len) IN
    IF IsOk(field_len)
    THEN Ok([fields |-> SubSeq(info.field_array, 1, field_len.ok),
             struct_ref |-> struct_ref, pos |-> 0])
    ELSE Panic

\* walk_fields_mut's closure with the offset counted in 8-byte words
walk_fields_mut_item_scaled(field, struct_ref) ==
    LET struct_base_ptr == struct_ref
        field_offset == isize_try_from(field.offset)
    IN  IF IsOk(field_offset)
        THEN { IF IsOk(field_ptr)
               THEN Ok(<<field.type_, field_ptr.ok, field.name>>)
               ELSE field_ptr
               : field_ptr \in ptr_offset(struct_base_ptr, 8 * field_offset.ok) }
        ELSE {Panic}

\* lines 32-37
walk_fields_mut_item(field, struct_ref) ==
    LET struct_base_ptr == struct_ref
        field_offset == isize_try_from(field.offset)
    IN  IF IsOk(field_offset)
        THEN { IF IsOk(field_ptr)
               THEN Ok(<<field.type_, field_ptr.ok, field.name>>)
               ELSE field_ptr
               : field_ptr \in ptr_offset(struct_base_ptr, field_offset.ok) }
        ELSE {Panic}

-----------------------------------------------------------------------------
(* Struct layouts *)

U8T == Scalar("U8")
U64T == Scalar("U64")

EmptyInfo == StructTypeInfo(<<>>, 0, 1, 1)

PointFields == <<StructFieldInfo(U64T, 0, "x"), StructFieldInfo(U64T, 8, "y")>>
PointInfo == StructTypeInfo(PointFields, 2, 16, 8)
PointT == StructOf(PointFields, 16, 8)

AllScalarsFields ==
    <<StructFieldInfo(Scalar("Bool"), 0, "b"),
      StructFieldInfo(U8T, 1, "k"),
      StructFieldInfo(Scalar("U16"), 2, "w"),
      StructFieldInfo(Scalar("U32"), 4, "d"),
      StructFieldInfo(U64T, 8, "q"),
      StructFieldInfo(Scalar("U128"), 16, "h"),
      StructFieldInfo(Scalar("U256"), 32, "z"),
      StructFieldInfo(Scalar("Address"), 64, "a"),
      StructFieldInfo(Scalar("Signer"), 96, "s")>>
AllScalarsT == StructOf(AllScalarsFields, 128, 8)

\* a layout whose fields are not declared in address order
ReorderedFields ==
    <<StructFieldInfo(U8T, 8, "tag"), StructFieldInfo(U64T, 0, "id"),
      StructFieldInfo(VectorOf(U8T), 16, "bytes")>>
ReorderedInfo == StructTypeInfo(ReorderedFields, 3, 40, 8)

\* a field count that does not fit usize
HugeLenInfos == { StructTypeInfo(<<>>, n, 16, 8) : n \in {UsizeMax + 1, U64Max} }

\* a field offset that does not fit isize, at the first or at a later position
HugeOffsetInfos ==
    { StructTypeInfo(<<StructFieldInfo(U64T, 0, "x"), StructFieldInfo(U64T, off, "y")>>, 2, 16, 8)
        : off \in {IsizeMax + 1, U64Max} }
    \cup { StructTypeInfo(<<StructFieldInfo(U64T, IsizeMax + 1, "x"),
                            StructFieldInfo(U64T, 8, "y")>>, 2, 16, 8) }

WalkInfos == {EmptyInfo, PointInfo, ReorderedInfo, AllScalarsT.type_info}
                \cup HugeLenInfos \cup HugeOffsetInfos

WalkBases == {0, 8, 64, IsizeMax, UsizeMax - 15, UsizeMax - 7, UsizeMax}

-----------------------------------------------------------------------------
(* The walkers as iterators *)

NoIter == [st |-> "none", fields |-> <<>>, struct_ref |-> 0, pos |-> 0, out |-> <<>>]

\* the iterator a call returns, or the panic of the call
NewIter(r) ==
    IF IsOk(r)
    THEN [st |-> "live", fields |-> r.ok.fields, struct_ref |-> r.ok.struct_ref,
          pos |-> 0, out |-> <<>>]
    ELSE [NoIter EXCEPT !.st = "panic"]

\* Iterator::next on the mapped slice iterator: item is the closure's outcome
IterNext(it, item) ==
    IF IsOk(item)
    THEN [it EXCEPT !.pos = @ + 1, !.out = Append(@, item.ok)]
    ELSE [it EXCEPT !.st = "panic"]

WalkInit ==
    /\ w_info \in WalkInfos
    /\ w_base \in WalkBases
    /\ iters = [imm |-> NoIter, mut |-> NoIter]

WalkFieldsCall ==
    /\ iters.imm.st = "none"
    /\ iters' = [iters EXCEPT !.imm = NewIter(walk_fields(w_info, w_base))]
    /\ UNCHANGED <<w_info, w_base, cmpVars, matchVars, concVars, diVars>>

WalkFieldsNext ==
    /\ iters.imm.st = "live"
    /\ iters.imm.pos < Len(iters.imm.fields)
    /\ \E item \in walk_fields_item(iters.imm.fields[iters.imm.pos + 1], iters.imm.struct_ref) :
          iters' = [iters EXCEPT !.imm = IterNext(@, item)]
    /\ UNCHANGED <<w_info, w_base, cmpVars, matchVars, concVars, diVars>>

WalkFieldsEnd ==
    /\ iters.imm.st = "live"
    /\ iters.imm.pos = Len(iters.imm.fields)
    /\ iters' = [iters EXCEPT !.imm.st = "done"]
    /\ UNCHANGED <<w_info, w_base, cmpVars, matchVars, concVars, diVars>>

WalkFieldsMutCall ==
    /\ iters.mut.st = "none"
    /\ iters' = [iters EXCEPT !.mut = NewIter(walk_fields_mut(w_info, w_base))]
    /\ UNCHANGED <<w_info, w_base, cmpVars, matchVars, concVars, diVars>>

WalkFieldsMutNext ==
    /\ iters.mut.st = "live"
    /\ iters.mut.pos < Len(iters.mut.fields)
    /\ \E item \in walk_fields_mut_item(iters.mut.fields[iters.mut.pos + 1], iters.mut.struct_ref) :
          iters' = [iters EXCEPT !.mut = IterNext(@, item)]
    /\ UNCHANGED <<w_info, w_base, cmpVars, matchVars, concVars, diVars>>

WalkFieldsMutEnd ==
    /\ iters.mut.st = "live"
    /\ iters.mut.pos = Len(iters.mut.fields)
    /\ iters' = [iters EXCEPT !.mut.st = "done"]
    /\ UNCHANGED <<w_info, w_base, cmpVars, matchVars, concVars, diVars>>

-----------------------------------------------------------------------------
(* Value memory *)

\* size in bytes of a value of type ty (MoveUntypedVector is ptr, capacity, length)
SizeOf(ty) ==
    CASE ty.type_desc = "Bool" -> 1
      [] ty.type_desc = "U8" -> 1
      [] ty.type_desc = "U16" -> 2
      [] ty.type_desc = "U32" -> 4
      [] ty.type_desc = "U64" -> 8
      [] ty.type_desc = "U128" -> 16
      [] ty.type_desc = "U256" -> 32
      [] ty.type_desc = "Address" -> 32
      [] ty.type_desc = "Signer" -> 32
      [] ty.type_desc = "Vector" -> 24
      [] ty.type_desc = "Reference" -> 8
      [] ty.type_desc = "Struct" -> ty.type_info.size

\* the n bytes of v, least significant first
RECURSIVE ToLeBytes(_, _)
ToLeBytes(v, n) == IF n = 0 THEN <<>> ELSE <<v % 256>> \o ToLeBytes(v \div 256, n - 1)

\* the number the bytes bs stand for, least significant first, in an integer
\* type of max + 1 values
RECURSIVE FromLeBytes(_, _)
FromLeBytes(bs, max) ==
    IF bs = <<>> THEN 0 ELSE (bs[1] + 256 * FromLeBytes(Tail(bs), max)) % (max + 1)

\* the n bytes at address p; m holds the bytes of the addresses in use
ReadBytes(m, p, n) ==
    [i \in 1 .. n |-> LET a == (p + i - 1) % (UsizeMax + 1)
                      IN  IF a \in DOMAIN m THEN m[a] ELSE 0]

\* m with the bytes bs written at address p
WriteBytes(m, p, bs) ==
    [a \in DOMAIN m |-> IF a >= p /\ a < p + Len(bs) THEN bs[a - p + 1] ELSE m[a]]

\* the fields of the MoveUntypedVector at address p
VecPtr(m, p) == FromLeBytes(ReadBytes(m, p, 8), UsizeMax)
VecCapacity(m, p) == FromLeBytes(ReadBytes(m, p + 8, 8), U64Max)
VecLength(m, p) == FromLeBytes(ReadBytes(m, p + 16, 8), U64Max)

\* Store(ty, v, p, st): the memory and the heap top after the caller wrote the
\* value v of type ty at address p; vector buffers are taken from the heap top
RECURSIVE Store(_, _, _, _)
RECURSIVE StoreFields(_, _, _, _, _)
RECURSIVE StoreElems(_, _, _, _, _)

StoreFields(fs, v, p, st, k) ==
    IF k > Len(fs) THEN st
    ELSE StoreFields(fs, v, p, Store(fs[k].type_, v[k], p + fs[k].offset, st), k + 1)

StoreElems(elem, v, buf, st, k) ==
    IF k > Len(v) THEN st
    ELSE StoreElems(elem, v, buf, Store(elem, v[k], buf + (k - 1) * SizeOf(elem), st), k + 1)

Store(ty, v, p, st) ==
    CASE ty.type_desc = "Struct" ->
            StoreFields(ty.type_info.field_array, v, p, st, 1)
      [] ty.type_desc = "Vector" ->
            LET elem == ty.type_info.element_type
                buf == st.brk
                hdr == ToLeBytes(buf, 8) \o ToLeBytes(Len(v), 8) \o ToLeBytes(Len(v), 8)
            IN  StoreElems(elem, v, buf,
                           [m |-> WriteBytes(st.m, p, hdr),
                            brk |-> buf + Len(v) * SizeOf(elem)], 1)
      [] OTHER ->
            [st EXCEPT !.m = WriteBytes(@, p, ToLeBytes(v, SizeOf(ty)))]

-----------------------------------------------------------------------------
(* Value views (conv::borrow_move_value_as_rust_value) *)

\* the view of the value of type ty at address p: scalars copy the bytes,
\* vectors, structs and references carry the descriptor and the pointer
borrow_move_value_as_rust_value(m, ty, p) ==
    CASE ty.type_desc \in Scalars ->
            [tag |-> ty.type_desc, ty |-> ty, val |-> ReadBytes(m, p, SizeOf(ty))]
      [] ty.type_desc = "Vector" ->
            [tag |-> "Vector", ty |-> ty.type_info.element_type, val |-> <<p>>]
      [] ty.type_desc = "Struct" ->
            [tag |-> "Struct", ty |-> ty, val |-> <<p>>]
      [] ty.type_desc = "Reference" ->
            [tag |-> "Reference", ty |-> ty.type_info.element_type,
             val |-> <<FromLeBytes(ReadBytes(m, p, 8), UsizeMax)>>]

-----------------------------------------------------------------------------
(* cmp_eq *)

Value(b) == [kind |-> "value", is_eq |-> b]
CallOf(f, t, p1, p2) == [kind |-> "call", fn |-> f, ty |-> t, p1 |-> p1, p2 |-> p2]
Unreachable(msg) == [kind |-> "panic", msg |-> msg]

\* the match with references compared by their pointers
cmp_eq_match_ref_by_pointer(v1, v2) ==
    CASE v1.tag = "Bool" /\ v2.tag = "Bool" -> Value(v1.val = v2.val)
      [] v1.tag = "U8" /\ v2.tag = "U8" -> Value(v1.val = v2.val)
      [] v1.tag = "U16" /\ v2.tag = "U16" -> Value(v1.val = v2.val)
      [] v1.tag = "U32" /\ v2.tag = "U32" -> Value(v1.val = v2.val)
      [] v1.tag = "U64" /\ v2.tag = "U64" -> Value(v1.val = v2.val)
      [] v1.tag = "U128" /\ v2.tag = "U128" -> Value(v1.val = v2.val)
      [] v1.tag = "U256" /\ v2.tag = "U256" -> Value(v1.val = v2.val)
      [] v1.tag = "Address" /\ v2.tag = "Address" -> Value(v1.val = v2.val)
      [] v1.tag = "Signer" /\ v2.tag = "Signer" -> Value(v1.val = v2.val)
      [] v1.tag = "Vector" /\ v2.tag = "Vector" ->
            CallOf("vector::cmp_eq", v1.ty, v1.val[1], v2.val[1])
      [] v1.tag = "Struct" /\ v2.tag = "Struct" ->
            CallOf("structs::cmp_eq", v1.ty, v1.val[1], v2.val[1])
      [] v1.tag = "Reference" /\ v2.tag = "Reference" ->
            Value(v1.val = v2.val)
      [] OTHER -> Unreachable("struct_cmp_eq unexpected value combination")

\* the match with mismatched views reported as unequal
cmp_eq_match_lenient(v1, v2) ==
    CASE v1.tag = "Bool" /\ v2.tag = "Bool" -> Value(v1.val = v2.val)
      [] v1.tag = "U8" /\ v2.tag = "U8" -> Value(v1.val = v2.val)
      [] v1.tag = "U16" /\ v2.tag = "U16" -> Value(v1.val = v2.val)
      [] v1.tag = "U32" /\ v2.tag = "U32" -> Value(v1.val = v2.val)
      [] v1.tag = "U64" /\ v2.tag = "U64" -> Value(v1.val = v2.val)
      [] v1.tag = "U128" /\ v2.tag = "U128" -> Value(v1.val = v2.val)
      [] v1.tag = "U256" /\ v2.tag = "U256" -> Value(v1.val = v2.val)
      [] v1.tag = "Address" /\ v2.tag = "Address" -> Value(v1.val = v2.val)
      [] v1.tag = "Signer" /\ v2.tag = "Signer" -> Value(v1.val = v2.val)
      [] v1.tag = "Vector" /\ v2.tag = "Vector" ->
            CallOf("vector::cmp_eq", v1.ty, v1.val[1], v2.val[1])
      [] v1.tag = "Struct" /\ v2.tag = "Struct" ->
            CallOf("structs::cmp_eq", v1.ty, v1.val[1], v2.val[1])
      [] v1.tag = "Reference" /\ v2.tag = "Reference" ->
            Unreachable("reference in struct field impossible")
      [] OTHER -> Value(FALSE)

\* the match with the U8 arm comparing by <=
cmp_eq_match_ordered(v1, v2) ==
    CASE v1.tag = "Bool" /\ v2.tag = "Bool" -> Value(v1.val = v2.val)
      [] v1.tag = "U8" /\ v2.tag = "U8" -> Value(v1.val[1] <= v2.val[1])
      [] v1.tag = "U16" /\ v2.tag = "U16" -> Value(v1.val = v2.val)
      [] v1.tag = "U32" /\ v2.tag = "U32" -> Value(v1.val = v2.val)
      [] v1.tag = "U64" /\ v2.tag = "U64" -> Value(v1.val = v2.val)
      [] v1.tag = "U128" /\ v2.tag = "U128" -> Value(v1.val = v2.val)
      [] v1.tag = "U256" /\ v2.tag = "U256" -> Value(v1.val = v2.val)
      [] v1.tag = "Address" /\ v2.tag = "Address" -> Value(v1.val = v2.val)
      [] v1.tag = "Signer" /\ v2.tag = "Signer" -> Value(v1.val = v2.val)
      [] v1.tag = "Vector" /\ v2.tag = "Vector" ->
            CallOf("vector::cmp_eq", v1.ty, v1.val[1], v2.val[1])
      [] v1.tag = "Struct" /\ v2.tag = "Struct" ->
            CallOf("structs::cmp_eq", v1.ty, v1.val[1], v2.val[1])
      [] v1.tag = "Reference" /\ v2.tag = "Reference" ->
            Unreachable("reference in struct field impossible")
      [] OTHER -> Unreachable("struct_cmp_eq unexpected value combination")

\* the match with the first vector compared with itself
cmp_eq_match_vec_self(v1, v2) ==
    CASE v1.tag = "Bool" /\ v2.tag = "Bool" -> Value(v1.val = v2.val)
      [] v1.tag = "U8" /\ v2.tag = "U8" -> Value(v1.val = v2.val)
      [] v1.tag = "U16" /\ v2.tag = "U16" -> Value(v1.val = v2.val)
      [] v1.tag = "U32" /\ v2.tag = "U32" -> Value(v1.val = v2.val)
      [] v1.tag = "U64" /\ v2.tag = "U64" -> Value(v1.val = v2.val)
      [] v1.tag = "U128" /\ v2.tag = "U128" -> Value(v1.val = v2.val)
      [] v1.tag = "U256" /\ v2.tag = "U256" -> Value(v1.val = v2.val)
      [] v1.tag = "Address" /\ v2.tag = "Address" -> Value(v1.val = v2.val)
      [] v1.tag = "Signer" /\ v2.tag = "Signer" -> Value(v1.val = v2.val)
      [] v1.tag = "Vector" /\ v2.tag = "Vector" ->
            CallOf("vector::cmp_eq", v1.ty, v1.val[1], v1.val[1])
      [] v1.tag = "Struct" /\ v2.tag = "Struct" ->
            CallOf("structs::cmp_eq", v1.ty, v1.val[1], v2.val[1])
      [] v1.tag = "Reference" /\ v2.tag = "Reference" ->
            Unreachable("reference in struct field impossible")
      [] OTHER -> Unreachable("struct_cmp_eq unexpected value combination")

\* lines 52-74: the match on the two Value Views. A scalar arm yields is_eq;
\* the Vector and Struct arms yield the call they make; the last two arms panic
cmp_eq_match(v1, v2) ==
    CASE v1.tag = "Bool" /\ v2.tag = "Bool" -> Value(v1.val = v2.val)
      [] v1.tag = "U8" /\ v2.tag = "U8" -> Value(v1.val = v2.val)
      [] v1.tag = "U16" /\ v2.tag = "U16" -> Value(v1.val = v2.val)
      [] v1.tag = "U32" /\ v2.tag = "U32" -> Value(v1.val = v2.val)
      [] v1.tag = "U64" /\ v2.tag = "U64" -> Value(v1.val = v2.val)
      [] v1.tag = "U128" /\ v2.tag = "U128" -> Value(v1.val = v2.val)
      [] v1.tag = "U256" /\ v2.tag = "U256" -> Value(v1.val = v2.val)
      [] v1.tag = "Address" /\ v2.tag = "Address" -> Value(v1.val = v2.val)
      [] v1.tag = "Signer" /\ v2.tag = "Signer" -> Value(v1.val = v2.val)
      [] v1.tag = "Vector" /\ v2.tag = "Vector" ->
            CallOf("vector::cmp_eq", v1.ty, v1.val[1], v2.val[1])
      [] v1.tag = "Struct" /\ v2.tag = "Struct" ->
            CallOf("structs::cmp_eq", v1.ty, v1.val[1], v2.val[1])
      [] v1.tag = "Reference" /\ v2.tag = "Reference" ->
            Unreachable("reference in struct field impossible")
      [] OTHER -> Unreachable("struct_cmp_eq unexpected value combination")

\* lines 46-50: the pairs of Value Views one turn of the loop hands to the
\* match, when both walks yield their field
cmp_eq_views(m, frame) ==
    LET field == frame.fields[frame.pos + 1] IN
    { <<borrow_move_value_as_rust_value(m, item1.ok[1], item1.ok[2]),
        borrow_move_value_as_rust_value(m, item2.ok[1], item2.ok[2])>>
      : item1 \in { i \in walk_fields_item(field, frame.p1) : IsOk(i) },
        item2 \in { i \in walk_fields_item(field, frame.p2) : IsOk(i) } }

\* the loop body with the Struct arm calling cmp_eq on the enclosing struct
cmp_eq_field_self(m, frame) ==
    LET field == frame.fields[frame.pos + 1] IN
    { IF IsOk(item1) /\ IsOk(item2)
      THEN IF item1.ok[1].type_desc = "Struct"
           THEN CallOf("structs::cmp_eq", frame.ty, frame.p1, frame.p2)
           ELSE cmp_eq_match(borrow_move_value_as_rust_value(m, item1.ok[1], item1.ok[2]),
                             borrow_move_value_as_rust_value(m, item2.ok[1], item2.ok[2]))
      ELSE Unreachable("overflow")
      : item1 \in walk_fields_item(field, frame.p1),
        item2 \in walk_fields_item(field, frame.p2) }

\* the loop with the second walk one field ahead of the first
cmp_eq_field_skewed(m, frame) ==
    LET field == frame.fields[frame.pos + 1]
        ahead == frame.fields[IF frame.pos + 2 <= Len(frame.fields)
                              THEN frame.pos + 2 ELSE frame.pos + 1]
    IN  { IF IsOk(item1) /\ IsOk(item2)
          THEN cmp_eq_match(borrow_move_value_as_rust_value(m, item1.ok[1], item1.ok[2]),
                            borrow_move_value_as_rust_value(m, item2.ok[1], item2.ok[2]))
          ELSE Unreachable("overflow")
          : item1 \in walk_fields_item(field, frame.p1),
            item2 \in walk_fields_item(ahead, frame.p2) }

\* lines 46-50 and 52: one turn of the loop over the zipped walks, up to the
\* match: the outcomes of the match, or the panic of a walk
cmp_eq_field(m, frame) ==
    LET field == frame.fields[frame.pos + 1] IN
    { IF IsOk(item1) /\ IsOk(item2)
      THEN cmp_eq_match(borrow_move_value_as_rust_value(m, item1.ok[1], item1.ok[2]),
                        borrow_move_value_as_rust_value(m, item2.ok[1], item2.ok[2]))
      ELSE Unreachable("overflow")
      : item1 \in walk_fields_item(field, frame.p1),
        item2 \in walk_fields_item(field, frame.p2) }

\* a running comparison: its call stack, the value just returned to the top
\* frame, and its outcome once the outermost call has ended
Running(stk, r) == [stack |-> stk, ret |-> r, out |-> "none"]
Ended(o) == [stack |-> <<>>, ret |-> "none", out |-> o]

Top(stk) == stk[Len(stk)]
Pop(stk) == SubSeq(stk, 1, Len(stk) - 1)

\* the top frame returns b to its caller
Return(stk, b) == IF Len(stk) = 1 THEN Ended(b) ELSE Running(Pop(stk), b)

\* the top frame moves to its next field or element
Advance(stk) == Running([stk EXCEPT ![Len(stk)].pos = @ + 1], "none")

\* the loop going on to the next field pair whatever the outcome of the match
cmp_eq_after_no_return(stk, b) ==
    Advance(stk)

\* lines 76-78
cmp_eq_after(stk, b) ==
    IF ~b THEN Return(stk, "false") ELSE Advance(stk)

\* the entry with both walks over the first value
cmp_eq_enter_same(stk, ty, p1, p2) ==
    LET st_info == ty.type_info
        fields1 == walk_fields(st_info, p1)
        fields2 == walk_fields(st_info, p1)
    IN  IF IsOk(fields1) /\ IsOk(fields2)
        THEN Running(Append(stk, [fn |-> "structs::cmp_eq", ty |-> ty,
                                  fields |-> fields1.ok.fields,
                                  p1 |-> p1, p2 |-> p1, pos |-> 0]), "none")
        ELSE Ended("abort")

\* lines 43-45: entry of cmp_eq(type, p1, p2); the frame holds the slice of
\* both walks and their common position
cmp_eq_enter(stk, ty, p1, p2) ==
    LET st_info == ty.type_info
        fields1 == walk_fields(st_info, p1)
        fields2 == walk_fields(st_info, p2)
    IN  IF IsOk(fields1) /\ IsOk(fields2)
        THEN Running(Append(stk, [fn |-> "structs::cmp_eq", ty |-> ty,
                                  fields |-> fields1.ok.fields,
                                  p1 |-> p1, p2 |-> p2, pos |-> 0]), "none")
        ELSE Ended("abort")

\* entry of TypedMoveBorrowedRustVec::cmp_eq on the vectors at p1 and p2
vec_cmp_eq_enter(stk, elem, p1, p2) ==
    Running(Append(stk, [fn |-> "vector::cmp_eq", ty |-> elem, fields |-> <<>>,
                         p1 |-> p1, p2 |-> p2, pos |-> 0]), "none")

Call(stk, c) ==
    IF c.fn = "structs::cmp_eq"
    THEN cmp_eq_enter(stk, c.ty, c.p1, c.p2)
    ELSE vec_cmp_eq_enter(stk, c.ty, c.p1, c.p2)

\* TypedMoveBorrowedRustVec::cmp_eq: one step of the frame on top. Vectors of
\* different lengths are unequal; scalar elements are compared at once;
\* vector and struct elements are compared by a call per element pair
vec_cmp_eq_step(m, stk) ==
    LET f == Top(stk)
        len1 == VecLength(m, f.p1)
        len2 == VecLength(m, f.p2)
        sz == SizeOf(f.ty)
        e1 == VecPtr(m, f.p1) + f.pos * sz
        e2 == VecPtr(m, f.p2) + f.pos * sz
    IN  IF len1 # len2 THEN Return(stk, "false")
        ELSE IF f.ty.type_desc \in Scalars
        THEN Return(stk, IF ReadBytes(m, e1, len1 * sz) = ReadBytes(m, e2, len2 * sz)
                         THEN "true" ELSE "false")
        ELSE IF f.pos = len1 THEN Return(stk, "true")
        ELSE IF f.ty.type_desc = "Struct" THEN cmp_eq_enter(stk, f.ty, e1, e2)
        ELSE IF f.ty.type_desc = "Vector"
        THEN vec_cmp_eq_enter(stk, f.ty.type_info.element_type, e1, e2)
        ELSE Ended("abort")

-----------------------------------------------------------------------------
(* Compared types and values *)

SeqsUpTo(S, n) == UNION { [1 .. k -> S] : k \in 0 .. n }
PairsOf(V) == V \X V

EmptyT == StructOf(<<>>, 1, 1)

PointVals == { <<x, y>> : x \in {3, 4, 259}, y \in {4, 5} }

\* two values of AllScalars and every change of one field of either
AllScalarsLo == <<0, 3, 3, 3, 3, 3, 3, 3, 3>>
AllScalarsHi == <<1, 255, 259, 65539, 4, 4, 4, 4, 4>>
AllScalarsPairs ==
    { <<a, [k \in 1 .. 9 |-> IF k = j THEN b[k] ELSE a[k]]>> :
        a \in {AllScalarsLo, AllScalarsHi}, b \in {AllScalarsLo, AllScalarsHi}, j \in 1 .. 9 }

ReorderedT == StructOf(ReorderedFields, 40, 8)
ReorderedVals == { <<t, 3, bs>> : t \in {1, 2}, bs \in SeqsUpTo({7, 8}, MaxVecLen) }

\* a struct holding a vector of structs of scalars
OuterT ==
    StructOf(<<StructFieldInfo(U8T, 0, "n"), StructFieldInfo(VectorOf(PointT), 8, "items")>>, 32, 8)
OuterElems == { <<3, 4>>, <<3, 5>>, <<4, 4>> }
OuterVals == { <<1, ps>> : ps \in SeqsUpTo(OuterElems, MaxVecLen) }

NestedT ==
    StructOf(<<StructFieldInfo(PointT, 0, "p"), StructFieldInfo(Scalar("U16"), 16, "w")>>, 24, 8)
NestedVals == { <<p, w>> : p \in { <<x, y>> : x \in {3, 4}, y \in {3, 4} }, w \in {3, 259} }

VecVecT == StructOf(<<StructFieldInfo(VectorOf(VectorOf(U8T)), 0, "vv")>>, 24, 8)
VecVecVals == { <<vv>> : vv \in SeqsUpTo({ <<>>, <<7>>, <<7, 8>> }, MaxVecLen) }

\* layouts with a Reference field: first, last, in the middle, in a nested struct
RefField(off) == StructFieldInfo(ReferenceTo(U64T), off, "r")
RefFirstT == StructOf(<<RefField(0), StructFieldInfo(U8T, 8, "a")>>, 16, 8)
RefLastT == StructOf(<<StructFieldInfo(U8T, 0, "a"), RefField(8)>>, 16, 8)
RefMidT ==
    StructOf(<<StructFieldInfo(U8T, 0, "a"), RefField(8), StructFieldInfo(U8T, 16, "b")>>, 24, 8)
RefNestedT ==
    StructOf(<<StructFieldInfo(U8T, 0, "a"), StructFieldInfo(RefLastT, 8, "inner")>>, 24, 8)
RefFirstVals == { <<r, a>> : r \in {0, 16}, a \in {1, 2} }
RefLastVals == { <<a, r>> : a \in {1, 2}, r \in {0, 16} }
RefMidVals == { <<a, r, b>> : a \in {1, 2}, r \in {0, 16}, b \in {1, 2} }
RefNestedVals == { <<a, v>> : a \in {1, 2}, v \in RefLastVals }

\* a layout whose second offset does not fit isize; nothing can be stored there
HugeOffsetT ==
    StructOf(<<StructFieldInfo(U8T, 0, "x"), StructFieldInfo(U8T, IsizeMax + 1, "y")>>, 16, 8)
HugeOffsetVals == { <<x, 0>> : x \in {1, 2} }

Families ==
    << [ty |-> EmptyT, pairs |-> { << <<>>, <<>> >> }],
       [ty |-> PointT, pairs |-> PairsOf(PointVals)],
       [ty |-> AllScalarsT, pairs |-> AllScalarsPairs],
       [ty |-> ReorderedT, pairs |-> PairsOf(ReorderedVals)],
       [ty |-> OuterT, pairs |-> PairsOf(OuterVals)],
       [ty |-> NestedT, pairs |-> PairsOf(NestedVals)],
       [ty |-> VecVecT, pairs |-> PairsOf(VecVecVals)],
       [ty |-> RefFirstT, pairs |-> PairsOf(RefFirstVals)],
       [ty |-> RefLastT, pairs |-> PairsOf(RefLastVals)],
       [ty |-> RefMidT, pairs |-> PairsOf(RefMidVals)],
       [ty |-> RefNestedT, pairs |-> PairsOf(RefNestedVals)],
       [ty |-> HugeOffsetT, pairs |-> PairsOf(HugeOffsetVals)] >>

\* the most heap the vectors of a value of type ty take
RECURSIVE HeapBound(_)
RECURSIVE HeapBoundFields(_, _)
HeapBoundFields(fs, k) ==
    IF k > Len(fs) THEN 0 ELSE HeapBound(fs[k].type_) + HeapBoundFields(fs, k + 1)
HeapBound(ty) ==
    CASE ty.type_desc = "Struct" -> HeapBoundFields(ty.type_info.field_array, 1)
      [] ty.type_desc = "Vector" ->
            MaxVecLen * (SizeOf(ty.type_info.element_type)
                            + HeapBound(ty.type_info.element_type))
      [] OTHER -> 0

\* the memory two values of type ty are stored in, before the caller stores
\* them: no two regions hold the same bytes
FreshMem(ty) ==
    [a \in 0 .. 8 + 2 * (SizeOf(ty) + HeapBound(ty)) - 1 |-> (a * 7 + 1) % 251]

\* the caller stores a at s1 and b at s2; with alias both pointers are the same
Setup(ty, a, b, alias) ==
    LET sz == SizeOf(ty)
        st1 == Store(ty, a, 8, [m |-> FreshMem(ty), brk |-> 8 + 2 * sz])
    IN  /\ type_ve = ty
        /\ s1 = 8
        /\ s2 = IF alias THEN 8 ELSE 8 + sz
        /\ val1 = a
        /\ val2 = IF alias THEN a ELSE b
        /\ mem = IF alias THEN st1.m ELSE Store(ty, b, 8 + sz, st1).m

NoResult == [fwd |-> "none", rev |-> "none"]

CmpInit ==
    /\ \E i \in 1 .. Len(Families) : \E pr \in Families[i].pairs : \E alias \in BOOLEAN :
          Setup(Families[i].ty, pr[1], pr[2], alias)
    /\ stack = <<>>
    /\ ret = "none"
    /\ swapped = FALSE
    /\ result = NoResult
    /\ maxDepth = 0
    /\ compared = <<>>

-----------------------------------------------------------------------------
(* The steps of a call of cmp_eq *)

Max(a, b) == IF a >= b THEN a ELSE b
Key(sw) == IF sw THEN "rev" ELSE "fwd"

\* the running call moves to r
Apply(r, sw) ==
    /\ stack' = r.stack
    /\ ret' = r.ret
    /\ result' = IF r.out = "none" THEN result ELSE [result EXCEPT ![Key(sw)] = r.out]
    /\ maxDepth' = Max(maxDepth, Len(r.stack))
    /\ UNCHANGED <<type_ve, s1, s2, val1, val2, mem, walkVars, matchVars, concVars, diVars>>

InStruct == stack # <<>> /\ Top(stack).fn = "structs::cmp_eq"
InVector == stack # <<>> /\ Top(stack).fn = "vector::cmp_eq"

\* the caller invokes cmp_eq(type_ve, s1, s2), or with sw cmp_eq(type_ve, s2, s1)
CmpEqCall(sw) ==
    /\ stack = <<>>
    /\ result[Key(sw)] = "none"
    /\ swapped' = sw
    /\ LET r == IF sw THEN cmp_eq_enter(<<>>, type_ve, s2, s1)
                      ELSE cmp_eq_enter(<<>>, type_ve, s1, s2)
       IN  /\ stack' = r.stack
           /\ ret' = r.ret
           /\ result' = IF r.out = "none" THEN result ELSE [result EXCEPT ![Key(sw)] = r.out]
           /\ maxDepth' = Len(r.stack)
    /\ compared' = <<>>
    /\ UNCHANGED <<type_ve, s1, s2, val1, val2, mem, walkVars, matchVars, concVars, diVars>>

\* line 46: the loop of the outermost call reaches one more field pair
Matched(seen, stk) == IF Len(stk) = 1 THEN Append(seen, Top(stk).pos + 1) ELSE seen

AtField == InStruct /\ ret = "none" /\ Top(stack).pos < Len(Top(stack).fields)

\* a field pair of scalars: compared, then lines 76-78
CmpEqScalarField ==
    /\ AtField
    /\ \E o \in cmp_eq_field(mem, Top(stack)) :
          /\ o.kind = "value"
          /\ Apply(cmp_eq_after(stack, o.is_eq), swapped)
    /\ compared' = Matched(compared, stack)
    /\ UNCHANGED swapped

\* a field pair of vectors or structs: the call of line 65 or 67
CmpEqCallField ==
    /\ AtField
    /\ \E o \in cmp_eq_field(mem, Top(stack)) :
          /\ o.kind = "call"
          /\ Apply(Call(stack, o), swapped)
    /\ compared' = Matched(compared, stack)
    /\ UNCHANGED swapped

\* unreachable!() or expect("overflow"): the whole call aborts
CmpEqPanic ==
    /\ AtField
    /\ \E o \in cmp_eq_field(mem, Top(stack)) :
          /\ o.kind = "panic"
          /\ Apply(Ended("abort"), swapped)
    /\ compared' = Matched(compared, stack)
    /\ UNCHANGED swapped

\* the call of line 65 or 67 has returned: lines 76-78
CmpEqResume ==
    /\ InStruct
    /\ ret # "none"
    /\ Apply(cmp_eq_after(stack, ret = "true"), swapped)
    /\ UNCHANGED <<swapped, compared>>

\* line 80
CmpEqReturnTrue ==
    /\ InStruct
    /\ ret = "none"
    /\ Top(stack).pos = Len(Top(stack).fields)
    /\ Apply(Return(stack, "true"), swapped)
    /\ UNCHANGED <<swapped, compared>>

VecCmpEqStep ==
    /\ InVector
    /\ ret = "none"
    /\ Apply(vec_cmp_eq_step(mem, stack), swapped)
    /\ UNCHANGED <<swapped, compared>>

VecCmpEqResume ==
    /\ InVector
    /\ ret # "none"
    /\ Apply(IF ret = "false" THEN Return(stack, "false") ELSE Advance(stack), swapped)
    /\ UNCHANGED <<swapped, compared>>

-----------------------------------------------------------------------------
(* The match of cmp_eq on arbitrary pairs of Value Views *)

Views ==
    { [tag |-> d, ty |-> Scalar(d), val |-> ToLeBytes(v, SizeOf(Scalar(d)))] :
        d \in Scalars, v \in {0, 1} }
    \cup { [tag |-> t, ty |-> U8T, val |-> <<p>>] :
             t \in {"Vector", "Reference"}, p \in {8, 32} }
    \cup { [tag |-> "Struct", ty |-> PointT, val |-> <<p>>] : p \in {8, 32} }

MatchInit ==
    /\ rv1 \in Views
    /\ rv2 \in Views
    /\ is_eq = [kind |-> "none"]

\* line 52: the match is evaluated
Match ==
    /\ is_eq.kind = "none"
    /\ is_eq' = cmp_eq_match(rv1, rv2)
    /\ UNCHANGED <<rv1, rv2, cmpVars, walkVars, concVars, diVars>>

-----------------------------------------------------------------------------
(* Concurrent read-only traversals: cmp_eq(type, s1, s2), cmp_eq(type, s2,  *)
(* s1) and walk_fields(info, s1) run at once over the same memory and the   *)
(* same descriptors; every step of each is atomic, the steps interleave     *)

\* the steps the running comparison r can take next over memory m: the body
\* of cmp_eq (lines 46-80) and of the vector comparison it calls
CmpSteps(m, r) ==
    LET f == Top(r.stack) IN
    IF f.fn = "structs::cmp_eq"
    THEN IF r.ret # "none" THEN { cmp_eq_after(r.stack, r.ret = "true") }
         ELSE IF f.pos = Len(f.fields) THEN { Return(r.stack, "true") }
         ELSE { CASE o.kind = "value" -> cmp_eq_after(r.stack, o.is_eq)
                  [] o.kind = "call" -> Call(r.stack, o)
                  [] OTHER -> Ended("abort")
                : o \in cmp_eq_field(m, f) }
    ELSE IF r.ret # "none"
         THEN { IF r.ret = "false" THEN Return(r.stack, "false") ELSE Advance(r.stack) }
         ELSE { vec_cmp_eq_step(m, r.stack) }

\* a comparison that takes the field of its first value out of the memory
\* when it reads it, leaving zeroes
cmp_eq_mem_take(m, r) ==
    LET f == Top(r.stack) IN
    IF f.fn = "structs::cmp_eq" /\ r.ret = "none" /\ f.pos < Len(f.fields)
    THEN LET field == f.fields[f.pos + 1] IN
         WriteBytes(m, f.p1 + field.offset, [i \in 1 .. SizeOf(field.type_) |-> 0])
    ELSE m

\* lines 40-50: the memory after a step of the running comparison r. Both
\* values are shared borrows and the Value Views copy or borrow what they
\* read: no step writes
cmp_eq_mem(m, r) ==
    m

\* the outcome of the comparison r when nothing else runs
RECURSIVE RunAlone(_, _)
RunAlone(m, r) ==
    IF r.stack = <<>> THEN r.out
    ELSE RunAlone(cmp_eq_mem(m, r), CHOOSE n \in CmpSteps(m, r) : TRUE)

\* the iterator of walk_fields drained when nothing else runs
RECURSIVE Drain(_)
Drain(it) ==
    IF it.st = "live" /\ it.pos < Len(it.fields)
    THEN Drain(IterNext(it, CHOOSE item \in walk_fields_item(it.fields[it.pos + 1],
                                                            it.struct_ref) : TRUE))
    ELSE it

ConcThreads == {"fwd", "rev"}
Arg1(t) == IF t = "rev" THEN s2 ELSE s1
Arg2(t) == IF t = "rev" THEN s1 ELSE s2
Other(t) == IF t = "rev" THEN "fwd" ELSE "rev"

NotStarted == [started |-> FALSE, mixed |-> FALSE, r |-> Ended("none")]

\* thread t has been called and has not returned
Active(t) == threads[t].started /\ threads[t].r.stack # <<>>

\* the walker has been called and is not exhausted
WalkActive == iters.imm.st = "live"

\* the compared pairs of family i: one first value against every second value
ConcPairs(i) ==
    LET a0 == (CHOOSE pr \in Families[i].pairs : TRUE)[1]
    IN  { pr \in Families[i].pairs : pr[1] = a0 }

ConcInit ==
    /\ \E i \in 1 .. Len(Families) : \E pr \in ConcPairs(i) : \E alias \in BOOLEAN :
          Setup(Families[i].ty, pr[1], pr[2], alias)
    /\ stack = <<>>
    /\ ret = "none"
    /\ swapped = FALSE
    /\ result = NoResult
    /\ maxDepth = 0
    /\ compared = <<>>
    /\ w_info = type_ve.type_info
    /\ w_base = s1
    /\ iters = [imm |-> NoIter, mut |-> NoIter]
    /\ threads = [t \in ConcThreads |-> NotStarted]
    /\ alone = [fwd |-> RunAlone(mem, cmp_eq_enter(<<>>, type_ve, s1, s2)),
                rev |-> RunAlone(mem, cmp_eq_enter(<<>>, type_ve, s2, s1)),
                walk |-> Drain(NewIter(walk_fields(w_info, w_base)))]

\* thread t calls cmp_eq on the shared values
ConcCmpEqCall(t) ==
    /\ ~threads[t].started
    /\ threads' = [threads EXCEPT ![t] =
                      [started |-> TRUE, mixed |-> FALSE,
                       r |-> cmp_eq_enter(<<>>, type_ve, Arg1(t), Arg2(t))]]
    /\ UNCHANGED <<alone, cmpVars, walkVars, matchVars, diVars>>

\* thread t takes its next step, whatever the other invocations are doing
ConcCmpEqStep(t) ==
    /\ Active(t)
    /\ \E n \in CmpSteps(mem, threads[t].r) :
          threads' = [threads EXCEPT ![t].r = n,
                                     ![t].mixed = @ \/ Active(Other(t)) \/ WalkActive]
    /\ mem' = cmp_eq_mem(mem, threads[t].r)
    /\ UNCHANGED <<alone, type_ve, s1, s2, val1, val2, stack, ret, swapped, result,
                   maxDepth, compared, walkVars, matchVars, diVars>>

-----------------------------------------------------------------------------
(* dwarf.rs: the DIBuilder and the registry of struct debug types           *)

\* an LLVM handle (LLVMModuleRef, LLVMDIBuilderRef, LLVMMetadataRef): the
\* kind of node, its name and the nodes it was built from
Ref(kind, name, elems) == [kind |-> kind, name |-> name, elems |-> elems]

\* Option<T>: None is the empty sequence, Some(x) the sequence of x
None == <<>>
Some(x) == <<x>>
IsSome(o) == Len(o) = 1

\* lines 260-264
create_unspecified_type == Ref("unspecified", "Unspecified type", <<>>)

\* lines 240-258
create_type(name) == Ref("basic", name, <<>>)

\* lines 267-285: the core DIBuilder::new builds for a module and its source;
\* the registry type_struct_db, a HashMap, is the set of its <<key, value>> pairs
DIBuilderCore(module_name, source) ==
    [module_di |-> Ref("module", module_name \o ".dbg_info", <<>>),
     builder_ref |-> Ref("builder", module_name \o ".dbg_info", <<>>),
     builder_file |-> Ref("file", source, <<>>),
     compiled_unit |-> Ref("compile_unit", source, <<>>),
     compiled_module |-> Ref("di_module", module_name \o ".dbg_info", <<>>),
     module_ref |-> Ref("module", module_name, <<>>),
     module_source |-> Ref("string", source, <<>>),
     type_unspecified |-> create_unspecified_type,
     type_u8 |-> create_type("u8"),
     type_u16 |-> create_type("u16"),
     type_u32 |-> create_type("u32"),
     type_u64 |-> create_type("u64"),
     type_u128 |-> create_type("u128"),
     type_u256 |-> create_type("u256"),
     type_bool |-> create_type("bool"),
     type_address |-> create_type("address"),
     type_struct_db |-> {}]

\* lines 120-291
DIBuilder_new(module_name, source, debug) ==
    IF debug THEN Some(DIBuilderCore(module_name, source)) ELSE None

\* HashMap::insert and HashMap::get
HashMapInsert(db, k, v) == { e \in db : e[1] # k } \cup { <<k, v>> }
HashMapGet(db, k) ==
    IF \E e \in db : e[1] = k THEN Some((CHOOSE e \in db : e[1] = k)[2]) ELSE None

\* a registration that keeps the entry the key already has
add_type_struct_keep(x, struct_id, re) ==
    IF IsSome(HashMapGet(x.type_struct_db, struct_id))
    THEN x
    ELSE [x EXCEPT !.type_struct_db = HashMapInsert(@, struct_id, re)]

\* lines 75-77
add_type_struct(x, struct_id, re) ==
    [x EXCEPT !.type_struct_db = HashMapInsert(@, struct_id, re)]

\* lines 79-86
get_type_struct(x, struct_id) ==
    LET val == HashMapGet(x.type_struct_db, struct_id)
    IN  IF IsSome(val) THEN val[1] ELSE x.type_unspecified

\* Option::as_ref().map(|x| x.field)
MapField(d, field) == [i \in DOMAIN d |-> d[i][field]]

\* lines 293-319
module_di(d) == MapField(d, "module_di")
builder_ref(d) == MapField(d, "builder_ref")
builder_file(d) == MapField(d, "builder_file")
compiled_unit(d) == MapField(d, "compiled_unit")
compiled_module(d) == MapField(d, "compiled_module")
module_ref(d) == MapField(d, "module_ref")
module_source(d) == MapField(d, "module_source")

Accessors ==
    {"module_di", "builder_ref", "builder_file", "compiled_unit", "compiled_module",
     "module_ref", "module_source"}

CallAccessor(d, f) ==
    CASE f = "module_di" -> module_di(d)
      [] f = "builder_ref" -> builder_ref(d)
      [] f = "builder_file" -> builder_file(d)
      [] f = "compiled_unit" -> compiled_unit(d)
      [] f = "compiled_module" -> compiled_module(d)
      [] f = "module_ref" -> module_ref(d)
      [] f = "module_source" -> module_source(d)

\* what a call on the DIBuilder returns: a handle, a core, or a panic
Returns(v) == [val |-> v, core |-> None, panicked |-> FALSE]
ReturnsCore(c) == [val |-> None, core |-> Some(c), panicked |-> FALSE]
UnwrapPanic == [val |-> None, core |-> None, panicked |-> TRUE]

\* lines 321-323: Option::unwrap
core(d) == IF IsSome(d) THEN ReturnsCore(d[1]) ELSE UnwrapPanic

\* move_model::ty::Type
Primitive(prim) == [tag |-> "Primitive", prim |-> prim, id |-> ""]
StructTy(struct_id) == [tag |-> "Struct", prim |-> "", id |-> struct_id]
OtherTy(tag) == [tag |-> tag, prim |-> "", id |-> ""]
NoType == OtherTy("")

\* lines 325-339
get_type(d, mty) ==
    LET c == core(d) IN
    IF c.panicked THEN UnwrapPanic
    ELSE LET x == c.core[1] IN
         Returns(Some(
            CASE mty.tag = "Primitive" /\ mty.prim = "Bool" -> x.type_bool
              [] mty.tag = "Primitive" /\ mty.prim = "U8" -> x.type_u8
              [] mty.tag = "Primitive" /\ mty.prim = "U16" -> x.type_u16
              [] mty.tag = "Primitive" /\ mty.prim = "U32" -> x.type_u32
              [] mty.tag = "Primitive" /\ mty.prim = "U64" -> x.type_u64
              [] mty.tag = "Primitive" /\ mty.prim = "U128" -> x.type_u128
              [] mty.tag = "Primitive" /\ mty.prim = "U256" -> x.type_u256
              [] mty.tag = "Primitive" /\ mty.prim = "Address" -> x.type_address
              [] mty.tag = "Struct" -> get_type_struct(core(d).core[1], mty.id)
              [] OTHER -> x.type_unspecified))

\* what LLVM has been made to emit: the files the debug module was printed
\* to, the messages printed, the named metadata of the debug module, and
\* whether the builder was finalized
NoOutput == [files |-> {}, stdout |-> {}, named |-> {}, finalized |-> FALSE]

\* the outcome of a call that may change the builder and the output
Effect(d, l, r) == [di |-> d, llvm |-> l, ret |-> r]

\* lines 341-356; res is what LLVMPrintModuleToFile returns
print_module_to_file(d, l, file_path, res) ==
    IF IsSome(d)
    THEN IF res = 0
         THEN Effect(d, [l EXCEPT !.files = @ \cup {file_path}], Returns(None))
         ELSE Effect(d, [l EXCEPT !.stdout = @ \cup {file_path}], Returns(None))
    ELSE Effect(d, l, Returns(None))

\* lines 567-571
finalize(d, l) ==
    IF IsSome(d)
    THEN Effect(d, [l EXCEPT !.finalized = TRUE], Returns(None))
    ELSE Effect(d, l, Returns(None))

\* lines 434-491: the member types of the fields, each with the debug type
\* get_type finds for it
MemberTypes(d, fields) ==
    [k \in DOMAIN fields |->
        Ref("member", fields[k].name, <<get_type(d, fields[k].ty).val[1]>>)]

\* lines 495-514
StructMeta(d, struct_env) ==
    Ref("struct", struct_env.name, MemberTypes(d, struct_env.fields))

\* a create_struct that takes the core without looking whether there is one
create_struct_unguarded(d, l, struct_env) ==
    LET c == core(d) IN
    IF c.panicked THEN Effect(d, l, UnwrapPanic)
    ELSE Effect(Some(add_type_struct(c.core[1], struct_env.id, StructMeta(d, struct_env))),
                [l EXCEPT !.named = @ \cup {struct_env.name}],
                Returns(None))

\* lines 370-565
create_struct(d, l, struct_env) ==
    IF IsSome(d)
    THEN LET struct_meta == StructMeta(d, struct_env)
         IN  Effect(Some(add_type_struct(core(d).core[1], struct_env.id, struct_meta)),
                    [l EXCEPT !.named = @ \cup {struct_env.name}],
                    Returns(None))
    ELSE Effect(d, l, Returns(None))

\* the structs of the compiled module: A holds a u8 and a B, B a bool; C is
\* a struct of another module, never created here
Field(name, ty) == [name |-> name, ty |-> ty]
StructEnvs ==
    { [id |-> "A", name |-> "A", fields |-> <<Field("n", Primitive("U8")), Field("b", StructTy("B"))>>],
      [id |-> "B", name |-> "B", fields |-> <<Field("f", Primitive("Bool"))>>] }
StructIds == {"A", "B", "C"}

\* metadata registered directly with add_type_struct
DirectMetas == { Ref("struct", "X", <<>>) }

MoveTypes ==
    { Primitive(prim) : prim \in {"Bool", "U8", "U16", "U32", "U64", "U128", "U256",
                                  "Address", "Signer", "Num"} }
    \cup { StructTy(id) : id \in StructIds }
    \cup { OtherTy(tag) : tag \in {"Vector", "Reference", "TypeParameter", "Tuple"} }

FilePaths == {"m.debug_info"}

\* the last call: its name, its struct id and Move type when it has one,
\* and what it returned
CallOn(fn, id, mty, r) ==
    [fn |-> fn, id |-> id, mty |-> mty, val |-> r.val, core |-> r.core,
     panicked |-> r.panicked]
NoCall == CallOn("none", "", NoType, Returns(None))

DIInit ==
    /\ \E debug \in BOOLEAN : di = DIBuilder_new("m", "m.move", debug)
    /\ llvm = NoOutput
    /\ di_ret = NoCall
    /\ di_log = <<>>

DIOff == di = None /\ llvm = NoOutput /\ di_ret = NoCall /\ di_log = <<>>

\* a panic ends the compilation: nothing is called afterwards
DIAlive == ~di_ret.panicked

\* core().add_type_struct(struct_id, re), called directly
AddTypeStruct(struct_id, re) ==
    /\ DIAlive
    /\ Len(di_log) < MaxRegistrations
    /\ LET c == core(di) IN
       IF c.panicked
       THEN /\ di_ret' = CallOn("core", "", NoType, c)
            /\ UNCHANGED <<di, di_log>>
       ELSE /\ di' = Some(add_type_struct(c.core[1], struct_id, re))
            /\ di_ret' = CallOn("add_type_struct", struct_id, NoType, Returns(None))
            /\ di_log' = Append(di_log, [id |-> struct_id, re |-> re])
    /\ UNCHANGED <<llvm, cmpVars, walkVars, matchVars, concVars>>

\* core().get_type_struct(struct_id), called directly
GetTypeStruct(struct_id) ==
    /\ DIAlive
    /\ LET c == core(di) IN
       IF c.panicked
       THEN di_ret' = CallOn("core", "", NoType, c)
       ELSE di_ret' = CallOn("get_type_struct", struct_id, NoType,
                             Returns(Some(get_type_struct(c.core[1], struct_id))))
    /\ UNCHANGED <<di, llvm, di_log, cmpVars, walkVars, matchVars, concVars>>

CallAccessorAction(f) ==
    /\ DIAlive
    /\ di_ret' = CallOn(f, "", NoType, Returns(CallAccessor(di, f)))
    /\ UNCHANGED <<di, llvm, di_log, cmpVars, walkVars, matchVars, concVars>>

CoreCall ==
    /\ DIAlive
    /\ di_ret' = CallOn("core", "", NoType, core(di))
    /\ UNCHANGED <<di, llvm, di_log, cmpVars, walkVars, matchVars, concVars>>

GetType(mty) ==
    /\ DIAlive
    /\ di_ret' = CallOn("get_type", "", mty, get_type(di, mty))
    /\ UNCHANGED <<di, llvm, di_log, cmpVars, walkVars, matchVars, concVars>>

CreateStruct(struct_env) ==
    /\ DIAlive
    /\ Len(di_log) < MaxRegistrations
    /\ LET e == create_struct(di, llvm, struct_env) IN
          /\ di' = e.di
          /\ llvm' = e.llvm
          /\ di_ret' = CallOn("create_struct", struct_env.id, NoType, e.ret)
          /\ di_log' = IF IsSome(e.di) /\ ~e.ret.panicked
                       THEN Append(di_log, [id |-> struct_env.id,
                                            re |-> StructMeta(di, struct_env)])
                       ELSE di_log
    /\ UNCHANGED <<cmpVars, walkVars, matchVars, concVars>>

Finalize ==
    /\ DIAlive
    /\ LET e == finalize(di, llvm) IN
          /\ di' = e.di
          /\ llvm' = e.llvm
          /\ di_ret' = CallOn("finalize", "", NoType, e.ret)
    /\ UNCHANGED <<di_log, cmpVars, walkVars, matchVars, concVars>>

PrintModuleToFile(file_path) ==
    /\ DIAlive
    /\ \E res \in {0, 1} :
          LET e == print_module_to_file(di, llvm, file_path, res) IN
             /\ di' = e.di
             /\ llvm' = e.llvm
             /\ di_ret' = CallOn("print_module_to_file", "", NoType, e.ret)
    /\ UNCHANGED <<di_log, cmpVars, walkVars, matchVars, concVars>>

-----------------------------------------------------------------------------
(* Specifications *)

WalkOff == w_info = EmptyInfo /\ w_base = 0 /\ iters = [imm |-> NoIter, mut |-> NoIter]

CmpOff ==
    /\ type_ve = EmptyT /\ s1 = 0 /\ s2 = 0 /\ val1 = <<>> /\ val2 = <<>>
    /\ mem = <<>> /\ stack = <<>> /\ ret = "none" /\ swapped = FALSE
    /\ result = NoResult /\ maxDepth = 0 /\ compared = <<>>

MatchOff == rv1 = [tag |-> "none"] /\ rv2 = [tag |-> "none"] /\ is_eq = [kind |-> "off"]

ConcOff == threads = <<>> /\ alone = <<>>

\* the structural equality
Init == CmpInit /\ WalkOff /\ MatchOff /\ ConcOff /\ DIOff
Next ==
    \/ \E sw \in BOOLEAN : CmpEqCall(sw)
    \/ CmpEqScalarField
    \/ CmpEqCallField
    \/ CmpEqPanic
    \/ CmpEqResume
    \/ CmpEqReturnTrue
    \/ VecCmpEqStep
    \/ VecCmpEqResume
Spec == Init /\ [][Next]_vars

\* the structural equality under weak fairness of its steps: a running call
\* is never suspended for ever
FairSpec == Spec /\ WF_vars(Next)

\* the field walkers
InitWalk == WalkInit /\ CmpOff /\ MatchOff /\ ConcOff /\ DIOff
NextWalk ==
    \/ WalkFieldsCall
    \/ WalkFieldsNext
    \/ WalkFieldsEnd
    \/ WalkFieldsMutCall
    \/ WalkFieldsMutNext
    \/ WalkFieldsMutEnd
SpecWalk == InitWalk /\ [][NextWalk]_vars

\* the match alone
InitMatch == MatchInit /\ CmpOff /\ WalkOff /\ ConcOff /\ DIOff
NextMatch == Match
SpecMatch == InitMatch /\ [][NextMatch]_vars

\* the concurrent readers
InitConc == ConcInit /\ MatchOff /\ DIOff
NextConc ==
    \/ \E t \in ConcThreads : ConcCmpEqCall(t)
    \/ \E t \in ConcThreads : ConcCmpEqStep(t)
    \/ WalkFieldsCall
    \/ WalkFieldsNext
    \/ WalkFieldsEnd
SpecConc == InitConc /\ [][NextConc]_vars

\* the debug-info builder
InitDI == DIInit /\ CmpOff /\ WalkOff /\ MatchOff /\ ConcOff
NextDI ==
    \/ \E id \in StructIds : \E re \in DirectMetas : AddTypeStruct(id, re)
    \/ \E id \in StructIds : GetTypeStruct(id)
    \/ \E f \in Accessors : CallAccessorAction(f)
    \/ CoreCall
    \/ \E mty \in MoveTypes : GetType(mty)
    \/ \E struct_env \in StructEnvs : CreateStruct(struct_env)
    \/ Finalize
    \/ \E file_path \in FilePaths : PrintModuleToFile(file_path)
SpecDI == InitDI /\ [][NextDI]_vars

-----------------------------------------------------------------------------
(* Properties of the field walkers (SpecWalk) *)

Finished(it) == it.st \in {"done", "panic"}

\* the caller's contract of a walk: the field count is that of the array, and
\* every field lies in the address space behind the base pointer
InContract ==
    /\ w_info.field_array_len = Len(w_info.field_array)
    /\ \A k \in 1 .. Len(w_info.field_array) :
          /\ w_info.field_array[k].offset <= IsizeMax
          /\ w_base + w_info.field_array[k].offset <= UsizeMax

\* the triple the walk owes for field k
ExpectedTriple(k) ==
    <<w_info.field_array[k].type_, w_base + w_info.field_array[k].offset,
      w_info.field_array[k].name>>

\* C1: a walk by walk_fields over a correctly laid-out struct of N fields never
\* panics, yields the triples (descriptor, base + offset, name) of the fields
\* in declaration order, and has yielded exactly N of them when it ends.
C1_WalkFieldsComplete ==
    InContract =>
        /\ iters.imm.st # "panic"
        /\ Len(iters.imm.out) <= Len(w_info.field_array)
        /\ \A k \in 1 .. Len(iters.imm.out) : iters.imm.out[k] = ExpectedTriple(k)
        /\ iters.imm.st = "done" => Len(iters.imm.out) = Len(w_info.field_array)

\* the walk of Point at base 64 has ended with (U64, 64, "x"), (U64, 72, "y")
C1_Witness ==
    /\ w_info = PointInfo
    /\ w_base = 64
    /\ iters.imm.st = "done"
    /\ iters.imm.out = << <<U64T, 64, "x">>, <<U64T, 72, "y">> >>

\* no pointer addition of the walk leaves the address space
NoUndefinedOffset ==
    \A k \in 1 .. Len(w_info.field_array) :
        w_info.field_array[k].offset <= IsizeMax
            => w_base + w_info.field_array[k].offset <= UsizeMax

\* C5: walk_fields_mut and walk_fields over the same layout and base yield the
\* same triples in the same order: after equally many steps they have yielded
\* the same sequence, and they end the same way (both done or both panicked)
\* after the same number of triples.
C5_WalkMutSameAsWalk ==
    NoUndefinedOffset =>
        /\ iters.imm.pos = iters.mut.pos => iters.imm.out = iters.mut.out
        /\ Finished(iters.imm) /\ Finished(iters.mut) => iters.imm = iters.mut

\* both walks of the reordered layout have ended with three triples
C5_Witness ==
    /\ w_info = ReorderedInfo
    /\ w_base = 8
    /\ iters.imm.st = "done"
    /\ iters.mut.st = "done"
    /\ Len(iters.mut.out) = 3
    /\ iters.mut.out[1] = <<U8T, 16, "tag">>
    /\ iters.mut.out[2] = <<U64T, 8, "id">>

\* C10: the walkers trap on every overflow: a field count that does not fit
\* usize and a field offset that does not fit isize panic, and no yielded
\* pointer is a wrapped-around base + offset.
C10_OverflowTraps ==
    \A v \in {"imm", "mut"} :
        /\ w_info.field_array_len > UsizeMax => iters[v].st \in {"none", "panic"}
        /\ \A k \in 1 .. Len(iters[v].out) :
              /\ iters[v].fields[k].offset <= IsizeMax
              /\ iters[v].out[k][2] = w_base + iters[v].fields[k].offset

-----------------------------------------------------------------------------
(* Properties of cmp_eq (Spec, FairSpec, SpecMatch) *)

Calls == {"fwd", "rev"}
Returned(k) == result[k] # "none"
Fields == type_ve.type_info.field_array

\* a type built of scalars, vectors and structs whose offsets fit isize
RECURSIVE ValueType(_)
ValueType(ty) ==
    CASE ty.type_desc \in Scalars -> TRUE
      [] ty.type_desc = "Vector" -> ValueType(ty.type_info.element_type)
      [] ty.type_desc = "Struct" ->
            \A k \in 1 .. Len(ty.type_info.field_array) :
                /\ ty.type_info.field_array[k].offset <= IsizeMax
                /\ ValueType(ty.type_info.field_array[k].type_)
      [] OTHER -> FALSE

FieldsEqual == \A k \in 1 .. Len(Fields) : val1[k] = val2[k]

\* C2: for a struct type of scalar, vector and struct fields, cmp_eq returns
\* true if every pair of corresponding fields of the two stored values is
\* equal, and false otherwise.
C2_CmpEqIffFieldsEqual ==
    \A k \in Calls :
        ValueType(type_ve) /\ Returned(k)
            => result[k] = IF FieldsEqual THEN "true" ELSE "false"

\* Point (3,4) against Point (3,5), stored apart, compares unequal
C2_Witness ==
    /\ type_ve = PointT
    /\ s1 # s2
    /\ val1 = <<3, 4>>
    /\ val2 = <<3, 5>>
    /\ result.fwd = "false"

IsReferenceField(k) == Fields[k].type_.type_desc = "Reference"
HasReferenceField == \E k \in 1 .. Len(Fields) : IsReferenceField(k)
FirstReference ==
    CHOOSE k \in 1 .. Len(Fields) :
        IsReferenceField(k) /\ \A j \in 1 .. k - 1 : ~IsReferenceField(j)

\* C3 as stated: on a layout with a Reference field, at any position, cmp_eq
\* aborts for every pair of values.
C3_ReferenceAlwaysAborts ==
    \A k \in Calls : HasReferenceField /\ Returned(k) => result[k] = "abort"

\* C3 amended: on a layout with a Reference field cmp_eq never returns true;
\* it aborts when all field pairs declared before the first Reference field
\* are equal, and returns false when one of them is unequal.
C3_ReferenceAbortsWhenReached ==
    \A k \in Calls :
        HasReferenceField /\ Returned(k)
            => result[k] = IF \A j \in 1 .. FirstReference - 1 : val1[j] = val2[j]
                           THEN "abort" ELSE "false"

\* the Reference in the middle is reached and aborts the call
C3_Witness ==
    /\ type_ve = RefMidT
    /\ val1[1] = val2[1]
    /\ val1[3] # val2[3]
    /\ result.fwd = "abort"

\* C4: when the match of cmp_eq gets Value Views of two different variants it
\* panics with "unexpected value combination"; it yields no boolean.
C4_MismatchPanics ==
    is_eq.kind \notin {"none", "off"} /\ rv1.tag # rv2.tag
        => is_eq = Unreachable("struct_cmp_eq unexpected value combination")

\* Bool against U8 has been matched
C4_Witness ==
    /\ rv1.tag = "Bool"
    /\ rv2.tag = "U8"
    /\ is_eq.kind = "panic"

\* C6: cmp_eq(type, A, B) and cmp_eq(type, B, A) return the same boolean
\* whenever neither aborts.
C6_Symmetric ==
    Returned("fwd") /\ Returned("rev") /\ result.fwd # "abort" /\ result.rev # "abort"
        => result.fwd = result.rev

\* both orders have compared a value with a smaller tag and a shorter vector
C6_Witness ==
    /\ type_ve = ReorderedT
    /\ val1[1] < val2[1]
    /\ Len(val1[3]) < Len(val2[3])
    /\ result.fwd = "false"
    /\ result.rev = "false"

\* number of leaf scalars in which two values of OuterT with equally long
\* vectors differ
LeafChanges(a, b) ==
    (IF a[1] = b[1] THEN 0 ELSE 1)
    + Cardinality({ ij \in (1 .. Len(a[2])) \X (1 .. 2) : a[2][ij[1]][ij[2]] # b[2][ij[1]][ij[2]] })

\* C7: a struct holding a vector of structs of scalars compares equal to an
\* identical copy and unequal to a copy with one leaf scalar changed.
C7_NestedCopyAndLeafChange ==
    \A k \in Calls :
        type_ve = OuterT /\ Returned(k) =>
            /\ val1 = val2 => result[k] = "true"
            /\ Len(val1[2]) = Len(val2[2]) /\ LeafChanges(val1, val2) = 1
                  => result[k] = "false"

\* two stored copies differ in the last leaf of the last element only
C7_Witness ==
    /\ type_ve = OuterT
    /\ s1 # s2
    /\ Len(val1[2]) = MaxVecLen
    /\ Len(val2[2]) = MaxVecLen
    /\ LeafChanges(val1, val2) = 1
    /\ val1[2][MaxVecLen][2] # val2[2][MaxVecLen][2]
    /\ result.fwd = "false"

MaxOf(S) == CHOOSE x \in S : \A y \in S : y <= x

\* nesting depth of a type: a struct or a vector is one level above its parts
RECURSIVE NestingDepth(_)
NestingDepth(ty) ==
    CASE ty.type_desc = "Struct" ->
            1 + MaxOf({0} \cup { NestingDepth(ty.type_info.field_array[k].type_) :
                                   k \in 1 .. Len(ty.type_info.field_array) })
      [] ty.type_desc = "Vector" -> 1 + NestingDepth(ty.type_info.element_type)
      [] OTHER -> 0

\* C8: the call stack of a running cmp_eq is never deeper than the nesting
\* depth of the compared type, and every call ends, by returning or aborting.
C8_TerminatesWithinDepth ==
    /\ [](Len(stack) <= NestingDepth(type_ve))
    /\ (stack # <<>>) ~> (stack = <<>>)

\* a comparison of OuterT has returned after descending struct, vector, struct
C8_Witness ==
    /\ type_ve = OuterT
    /\ NestingDepth(type_ve) = 3
    /\ stack = <<>>
    /\ maxDepth = 3
    /\ result.fwd = "true"
    /\ result.rev = "none"

\* the vector-typed field of the types that have one
VectorField ==
    CASE type_ve = ReorderedT -> 3
      [] type_ve = OuterT -> 2
      [] type_ve = VecVecT -> 1
      [] OTHER -> 0

\* C9: two vector-typed fields are equal if and only if their lengths match
\* and every pair of corresponding elements is equal; a vector compared with
\* itself is equal.
C9_VectorEquality ==
    \A k \in Calls :
        /\ VectorField # 0
        /\ Returned(k)
        /\ \A j \in 1 .. Len(Fields) : j # VectorField => val1[j] = val2[j]
        => LET v1 == val1[VectorField]
               v2 == val2[VectorField]
           IN  /\ result[k] = "true" <=>
                      /\ Len(v1) = Len(v2)
                      /\ \A i \in 1 .. Len(v1) : v1[i] = v2[i]
               /\ s1 = s2 => result[k] = "true"

\* a vector against a longer one with the same leading elements is unequal
C9_Witness ==
    /\ type_ve = VecVecT
    /\ Len(val1[1]) >= 1
    /\ Len(val1[1]) < Len(val2[1])
    /\ \A i \in 1 .. Len(val1[1]) : val1[1][i] = val2[1][i]
    /\ result.fwd = "false"

-----------------------------------------------------------------------------
(* Order of the field comparisons (Spec) *)

\* the position of the first field in which the two stored values differ
FirstUnequal ==
    CHOOSE k \in 1 .. Len(Fields) :
        val1[k] # val2[k] /\ \A j \in 1 .. k - 1 : val1[j] = val2[j]

\* C12: cmp_eq matches the field pairs strictly in declaration order, each
\* once, and stops at the first unequal pair: whatever has been matched so
\* far is the positions 1, 2, ... in order and every pair before the last
\* matched one is equal, so no field behind an unequal pair is converted or
\* compared. When a call on a type of scalars, vectors and structs has
\* returned, the number of pairs it matched is the position (counted from 1)
\* of the first unequal field, and it returned false, or the number N of
\* fields when all are equal
C12_DeclarationOrderShortCircuit ==
    /\ compared = [i \in 1 .. Len(compared) |-> i]
    /\ \A i \in 1 .. Len(compared) - 1 : val1[i] = val2[i]
    /\ (ValueType(type_ve) /\ stack = <<>> /\ Returned(Key(swapped))) =>
          IF FieldsEqual
          THEN Len(compared) = Len(Fields)
          ELSE Len(compared) = FirstUnequal /\ result[Key(swapped)] = "false"

\* a call on two values of the three-field layout Reordered that differ in
\* the first field and in the last has returned after one match
C12_Witness ==
    /\ type_ve = ReorderedT
    /\ val1[1] # val2[1]
    /\ val1[3] # val2[3]
    /\ stack = <<>>
    /\ result.fwd = "false"
    /\ compared = <<1>>

-----------------------------------------------------------------------------
(* Agreement of the matched Value Views (Spec) *)

CatchAll == "struct_cmp_eq unexpected value combination"

\* C13: whenever a call of cmp_eq, the outermost one or one entered for a
\* nested struct or a struct element of a vector, is about to match a field
\* pair, the two Value Views come from the same field descriptor and have the
\* same variant, and the match does not end in the catch-all arm
\* "unexpected value combination"
C13_TagAgreement ==
    AtField =>
        /\ \A pr \in cmp_eq_views(mem, Top(stack)) :
              /\ pr[1].tag = pr[2].tag
              /\ pr[1].ty = pr[2].ty
              /\ pr[1].tag = Top(stack).fields[Top(stack).pos + 1].type_.type_desc
        /\ \A o \in cmp_eq_field(mem, Top(stack)) :
              o.kind = "panic" => o.msg # CatchAll

\* three calls deep (struct, vector, struct element) the views of two
\* different U64 fields are about to be matched
C13_Witness ==
    /\ AtField
    /\ Len(stack) = 3
    /\ type_ve = OuterT
    /\ \E pr \in cmp_eq_views(mem, Top(stack)) :
          pr[1].tag = "U64" /\ pr[2].tag = "U64" /\ pr[1].val # pr[2].val

-----------------------------------------------------------------------------
(* Properties of the concurrent readers (SpecConc) *)

ThreadReturned(t) == threads[t].started /\ threads[t].r.stack = <<>>

\* C11: when cmp_eq(type, s1, s2), cmp_eq(type, s2, s1) and walk_fields(info,
\* s1) run concurrently over the same memory and descriptors and nothing
\* writes, then under every interleaving of their steps each invocation
\* returns what it returns when run alone (the same outcome of the comparison,
\* the same sequence of field triples or the same panic of the walk), and no
\* step changes the value memory or the descriptors
C11_ConcurrentReadersIsolated ==
    /\ [](\A t \in ConcThreads : ThreadReturned(t) => threads[t].r.out = alone[t])
    /\ [](Finished(iters.imm) =>
             /\ iters.imm.out = alone.walk.out
             /\ (iters.imm.st = "panic") = (alone.walk.st = "panic"))
    /\ [][mem' = mem /\ type_ve' = type_ve /\ w_info' = w_info]_vars

\* both comparisons of two different values of OuterT and the walk have
\* returned, and each comparison took steps while another invocation ran
C11_Witness ==
    /\ type_ve = OuterT
    /\ s1 # s2
    /\ \A t \in ConcThreads :
          ThreadReturned(t) /\ threads[t].mixed /\ threads[t].r.out = "false"
    /\ iters.imm.st = "done"
    /\ Len(iters.imm.out) = 2

-----------------------------------------------------------------------------
(* Properties of the debug-info builder (SpecDI) *)

\* the metadata of the latest add_type_struct for id, None when there is none
LastRegistered(id) ==
    LET ks == { k \in 1 .. Len(di_log) : di_log[k].id = id }
    IN  IF ks = {} THEN None ELSE Some(di_log[MaxOf(ks)].re)

\* what the registry of core x has to answer for id
Registered(x, id) ==
    IF IsSome(LastRegistered(id)) THEN LastRegistered(id)[1] ELSE x.type_unspecified

\* the core x without its registry
Rest(x) == [x EXCEPT !.type_struct_db = {}]

\* C14: after any sequence of add_type_struct calls, made directly or by
\* create_struct, get_type_struct(id) returns the metadata most recently
\* registered for id and the unspecified type for an id never registered, and
\* so does get_type for a struct type; get_type_struct and get_type leave the
\* builder as it is, and a call of add_type_struct for id changes the entry
\* of id and nothing else of the core
C14_StructRegistry ==
    /\ [](IsSome(di) =>
            \A id \in StructIds : get_type_struct(di[1], id) = Registered(di[1], id))
    /\ [](di_ret.fn = "get_type_struct" =>
            di_ret.val = Some(Registered(di[1], di_ret.id)))
    /\ []((di_ret.fn = "get_type" /\ di_ret.mty.tag = "Struct" /\ ~di_ret.panicked) =>
            di_ret.val = Some(Registered(di[1], di_ret.mty.id)))
    /\ [][di_ret'.fn \in {"get_type_struct", "get_type"} => di' = di]_vars
    /\ [][(IsSome(di) /\ di_ret'.fn \in {"add_type_struct", "create_struct"}) =>
            /\ IsSome(di')
            /\ Rest(di'[1]) = Rest(di[1])
            /\ \A id \in StructIds \ {di_ret'.id} :
                  HashMapGet(di'[1].type_struct_db, id) = HashMapGet(di[1].type_struct_db, id)]_vars

\* A has been registered, B, and A again with another metadata; the call
\* get_type_struct(A) has returned the later one, and C is unspecified
C14_Witness ==
    /\ IsSome(di)
    /\ Len(di_log) = 3
    /\ di_log[1].id = "A" /\ di_log[2].id = "B" /\ di_log[3].id = "A"
    /\ di_log[1].re # di_log[3].re
    /\ di_ret.fn = "get_type_struct"
    /\ di_ret.id = "A"
    /\ di_ret.val = Some(di_log[3].re)
    /\ get_type_struct(di[1], "C") = di[1].type_unspecified

\* C15: a DIBuilder constructed with debug = false holds no core and never
\* gets one; in any order of calls every accessor returns None, create_struct,
\* finalize and print_module_to_file return without a panic, register no
\* struct type and emit nothing, and the calls that panic are core() and
\* get_type, both whenever they are called
C15_NoCoreTolerated ==
    /\ DIBuilder_new("m", "m.move", FALSE) = None
    /\ [](~IsSome(di) =>
            /\ di_ret.fn \in Accessors => di_ret.val = None
            /\ llvm = NoOutput
            /\ di_log = <<>>
            /\ di_ret.panicked <=> di_ret.fn \in {"core", "get_type"})
    /\ [][~IsSome(di) => ~IsSome(di')]_vars

\* without a core create_struct has returned, nothing registered or emitted
C15_Witness ==
    /\ ~IsSome(di)
    /\ di_ret.fn = "create_struct"
    /\ di_ret.id = "A"
    /\ ~di_ret.panicked
    /\ llvm = NoOutput
    /\ di_log = <<>>

====
